---- MODULE Spec2Model ----
(***************************************************************************)
(* Canvas Parallax (dimanech/canvas-parallax).                             *)
(*                                                                         *)
(* Spec          one CanvasParallax / CanvasParallaxDocument /             *)
(*               CanvasParallaxTop instance after its constructor ran,     *)
(*               driven by the window events it listens to and by the      *)
(*               load events of the Image objects it created.              *)
(* SpecRegistry  the discovery loop over canvas[data-parallax].            *)
(*                                                                         *)
(* Numbers: scroll positions, layout tops and sizes are integers.  A       *)
(* quotient the code rounds is kept as a pair <<num, den>> with den > 0    *)
(* and rounded as Math.round does (half up); the quotients are exact here, *)
(* where the code computes them in double precision.                       *)
(*                                                                         *)
(* drew in `last` means context.drawImage was called; `state` is the state *)
(* of the Image it was called with.                                        *)
(***************************************************************************)
EXTENDS Integers, Sequences, FiniteSets, TLC

\* ---------------------------------------------------------------- bounds
\* document scroll positions are 0..MaxScroll
MaxScroll == 3
\* superseded Image objects whose request is still in flight
MaxStale == 1
\* canvas[data-parallax] elements in the document
NumElements == 2

\* ------------------------------------------------------- program constants
\* data-offset default, createInstance
DefaultOffset == 60
\* data-speed default, createInstance
DefaultSpeed == 5
\* divisor of the device angles, onDeviceOrientationChange
TiltDivisor == 6

\* ------------------------------------------------------------ input sets
\* layouts of the page: window.innerHeight, the document-space top of the
\* canvas, and img.currentSrc ("" when no responsive resolution occurred)
Layouts == {[innerHeight |-> 1, elemTop |-> 1, currentSrc |-> "sm"],
            [innerHeight |-> 2, elemTop |-> 3, currentSrc |-> ""]}
\* the img element's src attribute (the fallback image)
ImgSrc == "lg"
OptionSets == {[offset |-> 1, speed |-> 1], [offset |-> 2, speed |-> 2]}
\* (event.beta, event.gamma) of deviceorientation events
TiltEvents == {<<600, -600>>, <<-9, 15>>}
Classes == {"CanvasParallax", "CanvasParallaxDocument", "CanvasParallaxTop"}

\* natural size of the image behind a source URI
NaturalWidth(uri) == IF uri = "sm" THEN 3 ELSE 5
NaturalHeight(uri) == IF uri = "sm" THEN 2 ELSE 4

VARIABLES
    \* window / document
    docScroll, innerHeight, elemTop, currentSrc,
    \* fields of the instance (this.*)
    cls, options, src, top, start, beta, gamma,
    latestKnownScroll, isImageLoaded, isPainting, image, canvas,
    \* Image objects loadImage created and this.image no longer names,
    \* whose request is still in flight (their 'load' listener can still fire)
    stale,
    \* what the most recent handler read and did, and the one before it
    last, prev,
    \* discovery loop
    elements, cursor, instances,
    \* polling revision: a requestAnimationFrame callback is scheduled; the
    \* localScroll closure of the instance; what the most recent poll did
    rafPending, localScroll, frame

envVars == <<docScroll, innerHeight, elemTop, currentSrc>>
instVars == <<cls, options, src, top, start, beta, gamma,
              latestKnownScroll, isImageLoaded, isPainting, image, canvas>>
obsVars == <<last, prev>>
regVars == <<elements, cursor, instances>>
pollVars == <<rafPending, localScroll, frame>>
vars == <<envVars, instVars, stale, obsVars, regVars, pollVars>>

\* ------------------------------------------------------------- arithmetic
\* Math.round(num / den) for den > 0: nearest integer, halves go up
Round(num, den) == (2 * num + den) \div (2 * den)

\* CanvasParallax.getDocumentScroll: documentElement.scrollTop, or
\* body.scrollTop when that is falsy (0); in either layout model one of the
\* two holds the scroll and the other is 0
GetDocumentScroll(rootScroll, bodyScroll) ==
    IF rootScroll # 0 THEN rootScroll ELSE bodyScroll

CurrentScroll == GetDocumentScroll(docScroll, 0)

\* canvas.getBoundingClientRect().top: viewport-relative top
BoundingClientRectTop == elemTop - docScroll

\* imageSrc.currentSrc || imageSrc.src
ResolvedSrc(cur) == IF cur = "" THEN ImgSrc ELSE cur

\* ------------------------------------------------------------ Image objects
\* image.width / image.height of an Image that is not in the document: the
\* natural size once the load has completed, 0 before and after a failure
ImageWidth(img) == IF img.state = "complete" THEN NaturalWidth(img.src) ELSE 0
ImageHeight(img) == IF img.state = "complete" THEN NaturalHeight(img.src) ELSE 0

\* new Image() with image.src = uri: a request in flight
NewImage(uri) == [src |-> uri, state |-> "pending"]

\* canvas.width = v / canvas.height = v: a value that is not a valid
\* non-negative size leaves the attribute at its default
CanvasDim(v, default) == IF v < 0 THEN default ELSE v

\* initCanvasSize, on the Image this.image names when the handler runs
InitCanvasSize(img) ==
    [width |-> CanvasDim(ImageWidth(img) - options.offset, 300),
     height |-> CanvasDim(ImageHeight(img) - options.offset, 150)]

\* -------------------------------------------------------------- the mappers
\* outerToInnerScroll with the subtraction of this.start reversed
OuterToInnerScrollReversed(c, st, opts, ih, scrollTop) ==
    CASE c = "CanvasParallax" ->
            <<(st - scrollTop) * opts.offset - opts.offset * ih, ih>>
      [] c = "CanvasParallaxDocument" -> <<scrollTop, opts.speed>>
      [] c = "CanvasParallaxTop" -> <<st - scrollTop, opts.speed>>

\* outerToInnerScroll of the three classes, as <<num, den>>
OuterToInnerScroll(c, st, opts, ih, scrollTop) ==
    CASE c = "CanvasParallax" ->
            \* (scrollTop - start) / (innerHeight / offset) - offset
            <<(scrollTop - st) * opts.offset - opts.offset * ih, ih>>
      [] c = "CanvasParallaxDocument" -> <<scrollTop, opts.speed>>
      [] c = "CanvasParallaxTop" -> <<scrollTop - st, opts.speed>>

\* const y = Math.round(this.outerToInnerScroll(scrollTop))
RenderY(c, st, opts, ih, scrollTop) ==
    LET o == OuterToInnerScroll(c, st, opts, ih, scrollTop)
    IN Round(o[1], o[2])

\* a clamp to [-offset, offset]
ClampTiltBoth(v, offset) ==
    IF v > offset THEN offset ELSE IF v < -offset THEN -offset ELSE v

\* this.beta > offset ? offset : this.beta
ClampTilt(v, offset) == IF v > offset THEN offset ELSE v

NoDraw(painting) ==
    [drew |-> FALSE, state |-> "none", x |-> 0, y |-> 0, isPainting |-> painting]

\* render without the early return on y > offset
RenderNoSuppress(scrollTop, b, g, painting, imgState) ==
    LET offset == options.offset
        y == RenderY(cls, start, options, innerHeight, scrollTop)
    IN [drew |-> TRUE, state |-> imgState,
        x |-> ClampTilt(b, offset) - offset,
        y |-> y - ClampTilt(g, offset),
        isPainting |-> IF imgState = "broken" THEN painting ELSE FALSE]

\* render(scrollTop) with this.beta = b, this.gamma = g, this.isPainting =
\* painting and this.image in state imgState.  drew: context.drawImage was
\* called.  drawImage throws on an image whose load failed, so the
\* assignment after it is not reached; on an image that is not yet loaded
\* it returns without painting.
Render(scrollTop, b, g, painting, imgState) ==
    LET offset == options.offset
        y == RenderY(cls, start, options, innerHeight, scrollTop)
    IN IF y > offset
       THEN NoDraw(painting)
       ELSE [drew |-> TRUE, state |-> imgState,
             x |-> ClampTilt(b, offset) - offset,
             y |-> y - ClampTilt(g, offset),
             isPainting |-> IF imgState = "broken" THEN painting ELSE FALSE]

\* ------------------------------------------------------------- observation
\* last: the handler that ran most recently, if the document has not been
\* scrolled since (kind "none" otherwise): the scroll and viewport height
\* it read, the Image whose event it handled (req: "current" for this.image,
\* "stale" for a superseded one, "none"), the flag it
\* found, and what it did (drew: context.drawImage was called, on an Image
\* in state `state`, at (x, y); sized: the canvas was sized; setLoaded:
\* isImageLoaded was assigned)
Event(kind, scrollTop, req, r, sized, setLoaded) ==
    [kind |-> kind, scroll |-> scrollTop, ih |-> innerHeight,
     req |-> req, wasPainting |-> isPainting,
     drew |-> r.drew, state |-> r.state, x |-> r.x, y |-> r.y,
     sized |-> sized, setLoaded |-> setLoaded]

NoEvent ==
    [kind |-> "none", scroll |-> 0, ih |-> 0, req |-> "none", wasPainting |-> FALSE,
     drew |-> FALSE, state |-> "none", x |-> 0, y |-> 0,
     sized |-> FALSE, setLoaded |-> FALSE]

NoPrev == [kind |-> "none", scroll |-> 0, drew |-> FALSE]

\* prev: the scroll event right before the last handler, when both are
\* scroll events
Observe(ev) ==
    /\ last' = ev
    /\ prev' = IF ev.kind = "scroll" /\ last.kind = "scroll"
               THEN [kind |-> "scroll", scroll |-> last.scroll, drew |-> last.drew]
               ELSE NoPrev

\* ----------------------------------------------------------- constructor
\* the constructor without the assignment of CanvasParallaxTop
ConstructorNoOverride(c, params, opts, ih) ==
    [cls |-> c,
     options |-> opts,
     canvas |-> params.instance,
     src |-> params.src,
     top |-> params.top,
     beta |-> 0,
     gamma |-> 0,
     start |-> params.top - ih,
     latestKnownScroll |-> 0,
     isImageLoaded |-> FALSE,
     isPainting |-> FALSE,
     image |-> NewImage(params.src)]

\* new CanvasParallax / CanvasParallaxDocument / CanvasParallaxTop
\* (params, options) in a window of height ih: the fields after the
\* constructor returned.  The subclass constructor of CanvasParallaxTop
\* overwrites this.start after super() returned.
Constructor(c, params, opts, ih) ==
    [cls |-> c,
     options |-> opts,
     canvas |-> params.instance,
     src |-> params.src,
     top |-> params.top,
     beta |-> 0,
     gamma |-> 0,
     start |-> IF c = "CanvasParallaxTop" THEN params.top ELSE params.top - ih,
     latestKnownScroll |-> 0,
     isImageLoaded |-> FALSE,
     isPainting |-> FALSE,
     image |-> NewImage(params.src)]

\* params of createInstance for the canvas element `instance`
Params(instance, rectTop, scrollTop, cur) ==
    [instance |-> instance, src |-> ResolvedSrc(cur), top |-> rectTop + scrollTop]

\* --------------------------------------------------------------- Init
\* one instance, constructed as createInstance constructs it; the canvas
\* still has the default size of a canvas element
Init ==
    /\ docScroll = 0
    /\ \E l \in Layouts :
          /\ innerHeight = l.innerHeight
          /\ elemTop = l.elemTop
          /\ currentSrc = l.currentSrc
    /\ \E c \in Classes, o \in OptionSets :
          LET this == Constructor(c, Params(1, BoundingClientRectTop, CurrentScroll, currentSrc),
                                  o, innerHeight)
          IN /\ cls = this.cls
             /\ options = this.options
             /\ src = this.src
             /\ top = this.top
             /\ beta = this.beta
             /\ gamma = this.gamma
             /\ start = this.start
             /\ latestKnownScroll = this.latestKnownScroll
             /\ isImageLoaded = this.isImageLoaded
             /\ isPainting = this.isPainting
             /\ image = this.image
    /\ stale = 0
    /\ canvas = [width |-> 300, height |-> 150]
    /\ last = [NoEvent EXCEPT !.kind = "constructor", !.ih = innerHeight]
    /\ prev = NoPrev
    /\ elements = <<>>
    /\ cursor = 0
    /\ instances = <<>>
    /\ rafPending = FALSE
    /\ localScroll = [mode |-> "none", start |-> 0, windowHeight |-> 0]
    /\ frame = [kind |-> "none", scroll |-> 0, known |-> 0, called |-> FALSE,
                threw |-> FALSE, repeat |-> FALSE]

\* ------------------------------------------------------------ environment
\* the user scrolls the document; the scroll event is dispatched later
UserScroll(s) ==
    /\ s # docScroll
    /\ docScroll' = s
    /\ last' = NoEvent
    /\ prev' = NoPrev
    /\ UNCHANGED <<innerHeight, elemTop, currentSrc, instVars, stale, regVars, pollVars>>

\* the window is resized or the page reflows: viewport height, the
\* element's position and the selected <source> change
LayoutChange(l) ==
    /\ <<l.innerHeight, l.elemTop, l.currentSrc>> # <<innerHeight, elemTop, currentSrc>>
    /\ innerHeight' = l.innerHeight
    /\ elemTop' = l.elemTop
    /\ currentSrc' = l.currentSrc
    /\ UNCHANGED <<docScroll, instVars, stale, obsVars, regVars, pollVars>>

\* --------------------------------------------------------------- handlers
IsImageOutOfView(scrollTop) == scrollTop > top + ImageHeight(image)
\* shouldStart without the comparison
ShouldStartAlways(scrollTop) == TRUE
ShouldStart(scrollTop) == scrollTop >= start

\* the guard of onScroll without the latestKnownScroll comparison
OnScrollSkipsNoCoalesce(scrollTop) ==
    \/ isPainting
    \/ IsImageOutOfView(scrollTop)
    \/ ~ShouldStart(scrollTop)
    \/ ~isImageLoaded

\* the condition under which onScroll returns false without rendering
OnScrollSkips(scrollTop) ==
    \/ latestKnownScroll = scrollTop
    \/ isPainting
    \/ IsImageOutOfView(scrollTop)
    \/ ~ShouldStart(scrollTop)
    \/ ~isImageLoaded

\* onScroll, the listener of 'scroll' and of 'touchstart'
OnScroll ==
    LET scrollTop == CurrentScroll
        r == Render(scrollTop, beta, gamma, TRUE, image.state)
    IN /\ IF OnScrollSkips(scrollTop)
          THEN /\ UNCHANGED <<latestKnownScroll, isPainting>>
               /\ Observe(Event("scroll", scrollTop, "none", NoDraw(isPainting), FALSE, FALSE))
          ELSE /\ latestKnownScroll' = scrollTop
               /\ isPainting' = r.isPainting
               /\ Observe(Event("scroll", scrollTop, "none", r, FALSE, FALSE))
       /\ UNCHANGED <<envVars, cls, options, src, top, start, beta, gamma,
                      isImageLoaded, image, canvas, stale, regVars, pollVars>>

\* onDeviceOrientationChange(event)
OnDeviceOrientationChange(eb, eg) ==
    LET b == Round(eb, TiltDivisor)
        g == Round(eg, TiltDivisor)
        scrollTop == CurrentScroll
        r == Render(scrollTop, b, g, isPainting, image.state)
    IN /\ beta' = b
       /\ gamma' = g
       /\ isPainting' = r.isPainting
       /\ Observe(Event("orientation", scrollTop, "none", r, FALSE, FALSE))
       /\ UNCHANGED <<envVars, cls, options, src, top, start, latestKnownScroll,
                      isImageLoaded, image, canvas, stale, regVars, pollVars>>

\* this.start without the override of CanvasParallaxTop
ScreenChangeStartNoOverride(c, canvasTop, ih) == canvasTop - ih

\* this.start as onScreenChange of class c sets it
ScreenChangeStart(c, canvasTop, ih) ==
    IF c = "CanvasParallaxTop" THEN canvasTop ELSE canvasTop - ih

\* onScreenChange that also resets the tilt
OnScreenChangeResetsTilt ==
    LET canvasTop == BoundingClientRectTop + CurrentScroll
        newSrc == ResolvedSrc(currentSrc)
    IN /\ image.state = "pending" => stale < MaxStale
       /\ top' = canvasTop
       /\ start' = ScreenChangeStart(cls, canvasTop, innerHeight)
       /\ src' = newSrc
       /\ beta' = 0
       /\ gamma' = 0
       /\ image' = NewImage(newSrc)
       /\ stale' = IF image.state = "pending" THEN stale + 1 ELSE stale
       /\ Observe(Event("resize", CurrentScroll, "none", NoDraw(isPainting), FALSE, FALSE))
       /\ UNCHANGED <<envVars, cls, options, latestKnownScroll,
                      isImageLoaded, isPainting, canvas, regVars, pollVars>>

\* onScreenChange (CanvasParallax, inherited by CanvasParallaxDocument, and
\* the override of CanvasParallaxTop), the listener of 'orientationchange'
\* and of 'resize'; loadImage included: this.image names a new Image, and
\* the Image it named keeps its listener
OnScreenChange ==
    LET canvasTop == BoundingClientRectTop + CurrentScroll
        newSrc == ResolvedSrc(currentSrc)
    IN /\ image.state = "pending" => stale < MaxStale
       /\ top' = canvasTop
       /\ start' = ScreenChangeStart(cls, canvasTop, innerHeight)
       /\ src' = newSrc
       /\ image' = NewImage(newSrc)
       /\ stale' = IF image.state = "pending" THEN stale + 1 ELSE stale
       /\ Observe(Event("resize", CurrentScroll, "none", NoDraw(isPainting), FALSE, FALSE))
       /\ UNCHANGED <<envVars, cls, options, beta, gamma, latestKnownScroll,
                      isImageLoaded, isPainting, canvas, regVars, pollVars>>

\* the body of the 'load' listener loadImage registers: it reads this.image
\* when it runs, whichever Image fired the event
LoadListener(req, img) ==
    LET scrollTop == CurrentScroll
        r == Render(scrollTop, beta, gamma, isPainting, img.state)
    IN /\ canvas' = InitCanvasSize(img)
       /\ isImageLoaded' = TRUE
       /\ isPainting' = r.isPainting
       /\ Observe(Event("load", scrollTop, req, r, TRUE, TRUE))
       /\ UNCHANGED <<envVars, cls, options, src, top, start, beta, gamma,
                      latestKnownScroll, regVars, pollVars>>

\* the request of this.image completes and its 'load' listener runs
ImageLoad ==
    /\ image.state = "pending"
    /\ image' = [image EXCEPT !.state = "complete"]
    /\ UNCHANGED stale
    /\ LoadListener("current", image')

\* the request of a superseded Image completes and its 'load' listener runs
StaleImageLoad ==
    /\ stale > 0
    /\ stale' = stale - 1
    /\ UNCHANGED image
    /\ LoadListener("stale", image)

\* the request of this.image fails (network error, invalid source): no
\* 'load' event, and no 'error' listener is registered
ImageError ==
    /\ image.state = "pending"
    /\ image' = [image EXCEPT !.state = "broken"]
    /\ UNCHANGED <<envVars, cls, options, src, top, start, beta, gamma,
                   latestKnownScroll, isImageLoaded, isPainting, canvas,
                   stale, obsVars, regVars, pollVars>>

\* the request of a superseded Image fails
StaleImageError ==
    /\ stale > 0
    /\ stale' = stale - 1
    /\ UNCHANGED <<envVars, instVars, obsVars, regVars, pollVars>>

Next ==
    \/ \E s \in 0..MaxScroll : UserScroll(s)
    \/ \E l \in Layouts : LayoutChange(l)
    \/ OnScroll
    \/ \E e \in TiltEvents : OnDeviceOrientationChange(e[1], e[2])
    \/ OnScreenChange
    \/ ImageLoad
    \/ StaleImageLoad
    \/ ImageError
    \/ StaleImageError

Spec == Init /\ [][Next]_vars

\* ================================================================= claims
\* Ready: the load of this.image has completed and its listener ran
Ready == isImageLoaded /\ image.state = "complete"

\* C1: a draw (context.drawImage) is issued only for an image whose load
\* has completed, whatever handler issues it.
C1_DrawOnlyLoadedImage == last.drew => last.state = "complete"

\* C2: the completion of a superseded image load is not acted upon: it does
\* not size the canvas, does not set isImageLoaded and does not draw.
C2_StaleCompletionIgnored ==
    (last.kind = "load" /\ last.req = "stale")
        => (~last.sized /\ ~last.setLoaded /\ ~last.drew)

\* C3 as claimed: for a BottomPass or TopPass instance no handler (scroll,
\* load completion, device orientation) draws while the scroll it reads is
\* below this.start (stated for the draws of a loaded image).
C3_NoDrawBelowStart ==
    (/\ cls \in {"CanvasParallax", "CanvasParallaxTop"}
     /\ Ready
     /\ last.kind \in {"scroll", "load", "orientation"}
     /\ last.scroll < start)
        => ~last.drew

\* C3 as amended: for a BottomPass or TopPass instance a scroll/touch event
\* does not draw while the scroll it reads is below this.start.
C3_ScrollBelowStartDoesNotDraw ==
    (/\ cls \in {"CanvasParallax", "CanvasParallaxTop"}
     /\ last.kind = "scroll"
     /\ last.scroll < start)
        => ~last.drew

\* C3 witness: a scroll event that only the start comparison kept from
\* drawing
C3_Witness ==
    /\ cls \in {"CanvasParallax", "CanvasParallaxTop"}
    /\ last.kind = "scroll"
    /\ last.scroll < start
    /\ Ready
    /\ ~last.wasPainting
    /\ last.scroll # latestKnownScroll
    /\ ~IsImageOutOfView(last.scroll)
    /\ RenderY(cls, start, options, last.ih, last.scroll) <= options.offset
    /\ ~last.drew

\* the last two handlers were onScroll and read the same scroll value
SameScrollTwice ==
    /\ prev.kind = "scroll"
    /\ last.kind = "scroll"
    /\ prev.scroll = last.scroll

\* C4 as claimed: on a Ready instance two consecutive scroll events with
\* the same scroll value trigger exactly one draw in total.
C4_ExactlyOneDraw ==
    (Ready /\ SameScrollTwice)
        => ((prev.drew /\ ~last.drew) \/ (~prev.drew /\ last.drew))

\* C4 as amended: two consecutive scroll events with the same scroll value
\* trigger at most one draw in total; the second one never draws.
C4_AtMostOneDraw == SameScrollTwice => ~last.drew

\* C4 witness: the first of the two events drew on a Ready instance
C4_Witness == Ready /\ SameScrollTwice /\ prev.drew /\ ~last.drew

\* C5: a resize / orientation-change handler leaves the instance not
\* loaded, and a scroll event handled while the replacement image is still
\* loading does not draw.
C5_ResizeEntersLoading ==
    /\ last.kind = "resize" => ~isImageLoaded
    /\ (last.kind = "scroll" /\ image.state = "pending") => ~last.drew

\* C6: every resize / orientation-change handler leaves this.top at the
\* element's document-space top, this.start at the value the class derives
\* from it, this.src at the resolved responsive source, and has issued
\* exactly one new image load, for that source.
C6_ResizeRederives ==
    [][OnScreenChange =>
        /\ top' = elemTop'
        /\ cls = "CanvasParallax" => start' = elemTop' - innerHeight'
        /\ cls = "CanvasParallaxTop" => start' = elemTop'
        /\ src' = (IF currentSrc' = "" THEN ImgSrc ELSE currentSrc')
        /\ image' = [src |-> src', state |-> "pending"]
        /\ stale' = stale + (IF image.state = "pending" THEN 1 ELSE 0)]_vars

\* C6 witness: a CanvasParallaxTop instance after a resize in a layout
\* other than the one it was constructed in, the earlier load still pending
C6_Witness ==
    /\ last.kind = "resize"
    /\ cls = "CanvasParallaxTop"
    /\ top = elemTop
    /\ start = elemTop
    /\ elemTop = 3
    /\ src = ImgSrc
    /\ image.state = "pending"
    /\ stale = 1

\* C10 as claimed: an orientation event on a Ready instance always draws.
C10_OrientationAlwaysDraws ==
    (last.kind = "orientation" /\ Ready) => last.drew

\* C10 as amended: an orientation event draws at the current scroll exactly
\* when the rounded local offset does not exceed offset, whatever the scroll
\* guard (latestKnownScroll, isPainting, out of view, start) would say.
C10_OrientationDrawsUnlessPassed ==
    last.kind = "orientation"
        => (last.drew <=>
                RenderY(cls, start, options, last.ih, last.scroll) <= options.offset)

\* C10 witness: an orientation event on a Ready instance drew although the
\* scroll equals latestKnownScroll and the paint-in-flight flag was set
C10_Witness ==
    /\ last.kind = "orientation"
    /\ Ready
    /\ last.wasPainting
    /\ last.scroll = latestKnownScroll
    /\ last.drew

\* ============================================================== discovery
\* document.querySelectorAll('canvas[data-parallax]').forEach(...)
\*
\* elements[e]: the e-th canvas[data-parallax]: its data-start, data-offset
\* and data-speed attributes as getAttribute returns them (strings, "null"
\* when the attribute is absent) and image.complete of its first img.

\* values of data-start
StartAttrs == {"null", "", "document", "passBottom", "bottom", "passTop", "top"}
\* values of data-offset and data-speed
NumberAttrs == {[offset |-> "null", speed |-> "null"], [offset |-> "2", speed |-> "3"]}

\* the number an attribute string stands for where the code computes with it
ToNumber(s) == CASE s = "2" -> 2 [] s = "3" -> 3

\* value || default
OrDefault(value, default) == IF value \in {"null", ""} THEN default ELSE value
NumberOrDefault(value, default) ==
    IF value \in {"null", ""} THEN default ELSE ToNumber(value)

\* document-space top of the e-th canvas: the canvases follow one another
ElementTop(e) == elemTop * e

\* the class the switch on options.start constructs, "none" when no case
\* matches
SwitchStart(s) ==
    CASE s = "document" -> "CanvasParallaxDocument"
      [] s = "passBottom" -> "CanvasParallax"
      [] s = "passTop" -> "CanvasParallaxTop"
      [] OTHER -> "none"

\* createInstance() for element e: the instances it constructs (none or
\* one), each tagged with image.complete at the time of construction
CreateInstance(e) ==
    LET el == elements[e]
        params == Params(e, ElementTop(e) - docScroll, CurrentScroll, currentSrc)
        opts == [speed |-> NumberOrDefault(el.speed, DefaultSpeed),
                 offset |-> NumberOrDefault(el.offset, DefaultOffset),
                 start |-> OrDefault(el.start, "passBottom")]
        c == SwitchStart(opts.start)
    IN IF c = "none"
       THEN <<>>
       ELSE <<[this |-> Constructor(c, params, opts, innerHeight),
               imageComplete |-> el.complete]>>

\* the forEach callback for element e.  With image.complete false,
\* createInstance() is evaluated as the argument of addEventListener and
\* again as the argument of removeEventListener; what it returns
\* (undefined) is what is passed as the listener, so none is registered.
ForEachCallback(e) ==
    IF elements[e].complete
    THEN CreateInstance(e)
    ELSE CreateInstance(e) \o CreateInstance(e)

InitRegistry ==
    /\ docScroll = 0
    /\ \E l \in Layouts :
          /\ innerHeight = l.innerHeight
          /\ elemTop = l.elemTop
          /\ currentSrc = l.currentSrc
    /\ elements \in [1..NumElements ->
                        {[start |-> s, offset |-> n.offset, speed |-> n.speed,
                          complete |-> c] :
                            s \in StartAttrs, n \in NumberAttrs, c \in BOOLEAN}]
    /\ cursor = 1
    /\ instances = <<>>
    /\ cls = "none"
    /\ options = [offset |-> DefaultOffset, speed |-> DefaultSpeed]
    /\ src = ""
    /\ top = 0
    /\ start = 0
    /\ beta = 0
    /\ gamma = 0
    /\ latestKnownScroll = 0
    /\ isImageLoaded = FALSE
    /\ isPainting = FALSE
    /\ image = NewImage("")
    /\ canvas = [width |-> 300, height |-> 150]
    /\ stale = 0
    /\ last = NoEvent
    /\ prev = NoPrev
    /\ rafPending = FALSE
    /\ localScroll = [mode |-> "none", start |-> 0, windowHeight |-> 0]
    /\ frame = [kind |-> "none", scroll |-> 0, known |-> 0, called |-> FALSE,
                threw |-> FALSE, repeat |-> FALSE]

\* one iteration of the forEach loop
ForEachStep ==
    /\ cursor <= Len(elements)
    /\ instances' = instances \o ForEachCallback(cursor)
    /\ cursor' = cursor + 1
    /\ UNCHANGED <<elements, envVars, instVars, stale, obsVars, pollVars>>

\* the img of element e finishes loading, after the script has run (the
\* loop is synchronous); no 'load' listener is registered on it
ElementImageLoad(e) ==
    /\ cursor > Len(elements)
    /\ ~elements[e].complete
    /\ elements' = [elements EXCEPT ![e].complete = TRUE]
    /\ UNCHANGED <<cursor, instances, envVars, instVars, stale, obsVars, pollVars>>

NextRegistry ==
    \/ ForEachStep
    \/ \E e \in 1..NumElements : ElementImageLoad(e)

SpecRegistry == InitRegistry /\ [][NextRegistry]_vars

\* the instances constructed on canvas e
InstancesOf(e) == {i \in DOMAIN instances : instances[i].this.canvas = e}

\* C7: no two instances own the same canvas, whether the element's image
\* was complete at discovery or still loading.
C7_OneInstancePerCanvas ==
    \A e \in 1..NumElements : Cardinality(InstancesOf(e)) <= 1

\* C8: every instance was constructed when its element's image had
\* completed.
C8_ConstructedAfterImageComplete ==
    \A i \in DOMAIN instances : instances[i].imageComplete

\* the class the documented values of data-start stand for
DocumentedMode(s) ==
    CASE s \in {"null", "passBottom", "bottom"} -> "CanvasParallax"
      [] s \in {"passTop", "top"} -> "CanvasParallaxTop"
      [] s = "document" -> "CanvasParallaxDocument"
      [] OTHER -> "CanvasParallax"

\* C9: every element the loop has visited has an instance, and its
\* instances are of the class its data-start stands for (the default class
\* when the attribute is absent or unusable).
C9_ModeSelectionTotal ==
    \A e \in 1..NumElements :
        e < cursor =>
            /\ InstancesOf(e) # {}
            /\ \A i \in InstancesOf(e) :
                  instances[i].this.cls = DocumentedMode(elements[e].start)

\* ======================================================= claims C11 .. C17
\* C11: whenever isImageLoaded is true, the canvas has the natural size of
\* the instance's current image minus offset.
C11_CanvasMatchesCurrentImage ==
    isImageLoaded =>
        /\ canvas.width = NaturalWidth(image.src) - options.offset
        /\ canvas.height = NaturalHeight(image.src) - options.offset

\* C12: a Ready CanvasParallaxDocument instance with no paint in flight that
\* handles a scroll event with a new, in-view scroll value s draws when
\* round(s / speed) <= offset, wherever s lies relative to this.start.
\* (The value was new when the handler drew or latestKnownScroll still
\* differs from it.)
C12_DocumentIgnoresStart ==
    (/\ cls = "CanvasParallaxDocument"
     /\ last.kind = "scroll"
     /\ Ready
     /\ ~last.wasPainting
     /\ last.drew \/ latestKnownScroll # last.scroll
     /\ ~IsImageOutOfView(last.scroll)
     /\ Round(last.scroll, options.speed) <= options.offset)
        => last.drew

\* C16: a scroll handler never leaves the paint-in-flight flag set (stated
\* for an instance whose current image has loaded).
C16_PaintFlagCleared ==
    (last.kind = "scroll" /\ Ready) => ~isPainting

\* the smaller of two integers
Min(a, b) == IF a < b THEN a ELSE b

\* n = Math.round(angle / 6): n <= angle / 6 + 1/2 < n + 1
IsRounded(n, angle) == 6 * n <= angle + 3 /\ angle + 3 < 6 * n + 6

\* C13: an orientation event with angles (eb, eg) stores the tilt
\* (round(eb / 6), round(eg / 6)); what it draws with caps each component at
\* offset from above only: drawImage(image, min(beta, offset) - offset,
\* y - min(gamma, offset)).  With the default offset 60 the angles
\* (600, -600) give the stored tilt (100, -100) and the drawn tilt (60, -100).
C13_TiltStoredAndCappedAbove ==
    [][\A e \in TiltEvents :
        OnDeviceOrientationChange(e[1], e[2]) =>
            /\ IsRounded(beta', e[1])
            /\ IsRounded(gamma', e[2])
            /\ last'.drew =>
                 /\ last'.x = Min(beta', options.offset) - options.offset
                 /\ last'.y = RenderY(cls, start, options, innerHeight, CurrentScroll)
                                - Min(gamma', options.offset)
            /\ (e = <<600, -600>>) =>
                 /\ beta' = 100
                 /\ gamma' = -100
                 /\ ClampTilt(beta', DefaultOffset) = 60
                 /\ ClampTilt(gamma', DefaultOffset) = -100]_vars

\* C13 witness: the event (600, -600) was handled and drew: beta is capped
\* at offset, gamma is not capped at -offset
C13_Witness ==
    /\ last.kind = "orientation"
    /\ beta = 100
    /\ gamma = -100
    /\ last.drew
    /\ last.x = 0
    /\ last.y = RenderY(cls, start, options, last.ih, last.scroll) + 100

\* a / b < c / d for quotients <<a, b>>, <<c, d>> with positive denominators
QLess(p, q) == p[1] * q[2] < q[1] * p[2]

\* C14: for fixed this.start, viewport height and offset the BottomPass
\* outerToInnerScroll increases with the scroll, and a render call of a
\* BottomPass instance draws exactly when round(local offset) <= offset
\* (render is called by every load and orientation handler, and by the
\* scroll handlers that pass the guard).
C14_BottomPassMonotoneAndSuppressed ==
    /\ \A s1, s2 \in 0..MaxScroll :
          s1 < s2 =>
              QLess(OuterToInnerScroll("CanvasParallax", start, options, innerHeight, s1),
                    OuterToInnerScroll("CanvasParallax", start, options, innerHeight, s2))
    /\ (cls = "CanvasParallax" /\ last.kind \in {"load", "orientation"})
          => (last.drew <=>
                Round((last.scroll - start) * options.offset - options.offset * last.ih,
                      last.ih) <= options.offset)
    /\ (cls = "CanvasParallax" /\ last.kind = "scroll" /\ last.drew)
          => Round((last.scroll - start) * options.offset - options.offset * last.ih,
                   last.ih) <= options.offset

\* C14 witness: a BottomPass load handler suppressed the draw
C14_Witness ==
    /\ cls = "CanvasParallax"
    /\ last.kind = "load"
    /\ last.req = "current"
    /\ ~last.drew
    /\ RenderY(cls, start, options, last.ih, last.scroll) > options.offset

\* C15: for a CanvasParallaxTop instance this.start equals this.top in
\* every state, so outerToInnerScroll(s) = (s - top) / speed; for a
\* CanvasParallaxDocument instance outerToInnerScroll(s) = s / speed.
C15_TopAndDocumentMappers ==
    /\ cls = "CanvasParallaxTop" =>
          /\ start = top
          /\ \A s \in 0..MaxScroll :
                LET o == OuterToInnerScroll(cls, start, options, innerHeight, s)
                IN o[1] * options.speed = (s - top) * o[2]
    /\ cls = "CanvasParallaxDocument" =>
          \A s \in 0..MaxScroll :
              LET o == OuterToInnerScroll(cls, start, options, innerHeight, s)
              IN o[1] * options.speed = s * o[2]

\* C15 witness: a CanvasParallaxTop instance after a resize that moved it
C15_Witness ==
    /\ cls = "CanvasParallaxTop"
    /\ last.kind = "resize"
    /\ top = 3
    /\ start = 3
    /\ innerHeight = 2

\* some deviceorientation event is handled in this step
OrientationStep == \E e \in TiltEvents : OnDeviceOrientationChange(e[1], e[2])

\* C17: beta and gamma are changed by orientation events only (scroll,
\* resize, image reload and load completion leave them as they are), and an
\* orientation event leaves this.top, this.start, this.src and
\* latestKnownScroll as they are.
C17_TiltFrame ==
    [][/\ (beta' # beta \/ gamma' # gamma) => OrientationStep
       /\ (OnScroll \/ OnScreenChange \/ ImageLoad \/ StaleImageLoad
              \/ ImageError \/ StaleImageError)
            => UNCHANGED <<beta, gamma>>
       /\ OrientationStep => UNCHANGED <<top, start, src, latestKnownScroll>>]_vars

\* C17 witness: the tilt of an earlier orientation event is still stored
\* after a resize and the completion of the replacement image's load
C17_Witness ==
    /\ last.kind = "load"
    /\ last.req = "current"
    /\ stale = 0
    /\ beta = 100
    /\ gamma = -100
    /\ top = 3
    /\ latestKnownScroll # 0

\* ======================================================= polling revision
\* parallax.js: one Parallax instance on a device where attachEventHandlers
\* starts scrollPositionInfinitePoll (iPhone / iPad).  The listener of
\* 'orientationchange resize' is registered for an event type no browser
\* dispatches, so onScreenChange never runs and is left out.

\* values of data-start the switch of $.fn.parallax knows
PollModes == {"document", "bottom", "top"}

\* the start variable and the localScroll closure $.fn.parallax builds for
\* an element at document-space top t in a window of height wh
PollClosure(mode, t, wh) ==
    [mode |-> mode,
     start |-> CASE mode = "bottom" -> t - wh
                 [] mode = "top" -> t
                 [] OTHER -> 0,
     windowHeight |-> wh]

\* localScroll(scrollTop) of the closure ls, as <<num, den>>
ParallaxLocalScroll(ls, opts, scrollTop) ==
    IF ls.mode = "bottom"
    THEN <<(scrollTop - ls.start) * opts.offset, ls.windowHeight>>
    ELSE <<scrollTop - ls.start, opts.speed>>

\* Parallax.prototype.render: clearRect and drawImage are always called;
\* drawImage throws on an image whose load failed
ParallaxRender(scrollTop, b, g, img) ==
    LET offset == options.offset
        q == ParallaxLocalScroll(localScroll, options, scrollTop)
        y == Round(q[1], q[2]) - offset
    IN [rendered |-> TRUE, threw |-> img.state = "broken",
        x |-> ClampTilt(b, offset) - offset, y |-> y - ClampTilt(g, offset)]

NotRendered == [rendered |-> FALSE, threw |-> FALSE, x |-> 0, y |-> 0]

\* Parallax.prototype.onScroll(scrollTop)
ParallaxOnScroll(scrollTop, loaded, img) ==
    IF ~loaded /\ scrollTop > top + ImageHeight(img)
    THEN NotRendered
    ELSE IF scrollTop >= start
         THEN ParallaxRender(scrollTop, beta, gamma, img)
         ELSE NotRendered

\* Parallax.prototype.scrollPositionInfinitePoll with latestKnownScroll =
\* known: the new latestKnownScroll, whether onScroll was called, what it
\* did, and whether requestAnimationFrame was reached
Poll(scrollTop, known, loaded, img) ==
    IF scrollTop # known
    THEN LET r == ParallaxOnScroll(scrollTop, loaded, img)
         IN [latestKnownScroll |-> scrollTop, called |-> TRUE,
             threw |-> r.threw, raf |-> ~r.threw]
    ELSE [latestKnownScroll |-> known, called |-> FALSE, threw |-> FALSE,
          raf |-> TRUE]

\* the Parallax constructor has returned: loadImage() was called, and
\* attachEventHandlers() ran the first poll with the image still pending
InitPoll ==
    /\ docScroll \in 0..MaxScroll
    /\ \E l \in Layouts :
          /\ innerHeight = l.innerHeight
          /\ elemTop = l.elemTop
          /\ currentSrc = l.currentSrc
    /\ \E o \in OptionSets, m \in PollModes :
          /\ options = [offset |-> o.offset, speed |-> o.speed, start |-> m]
          /\ localScroll = PollClosure(m, elemTop, innerHeight)
    /\ cls = "Parallax"
    /\ src = ResolvedSrc(currentSrc)
    /\ top = elemTop
    /\ start = localScroll.start
    /\ beta = 0
    /\ gamma = 0
    /\ isImageLoaded = FALSE
    /\ isPainting = FALSE
    /\ image = NewImage(src)
    /\ canvas = [width |-> 300, height |-> 150]
    /\ stale = 0
    /\ LET p == Poll(CurrentScroll, 0, FALSE, image)
       IN /\ latestKnownScroll = p.latestKnownScroll
          /\ rafPending = p.raf
          /\ frame = [kind |-> "frame", scroll |-> CurrentScroll, known |-> 0,
                      called |-> p.called, threw |-> p.threw, repeat |-> FALSE]
    /\ last = NoEvent
    /\ prev = NoPrev
    /\ elements = <<>>
    /\ cursor = 0
    /\ instances = <<>>

\* the requestAnimationFrame callback runs: one poll
PollFrame ==
    LET scrollTop == CurrentScroll
        p == Poll(scrollTop, latestKnownScroll, isImageLoaded, image)
    IN /\ rafPending
       /\ latestKnownScroll' = p.latestKnownScroll
       /\ rafPending' = p.raf
       /\ frame' = [kind |-> "frame", scroll |-> scrollTop,
                    known |-> latestKnownScroll, called |-> p.called,
                    threw |-> p.threw,
                    repeat |-> frame.kind = "frame" /\ frame.scroll = scrollTop]
       /\ UNCHANGED <<envVars, cls, options, src, top, start, beta, gamma,
                      isImageLoaded, isPainting, image, canvas, stale,
                      obsVars, regVars, localScroll>>

\* the 'load' listener of loadImage: initCanvasSize, isImageLoaded = true,
\* render(getDocumentScroll())
PollImageLoad ==
    /\ image.state = "pending"
    /\ image' = [image EXCEPT !.state = "complete"]
    /\ canvas' = InitCanvasSize(image')
    /\ isImageLoaded' = TRUE
    /\ UNCHANGED <<envVars, cls, options, src, top, start, beta, gamma,
                   latestKnownScroll, isPainting, stale, obsVars, regVars, pollVars>>

\* the request of this.image fails; no listener
PollImageError ==
    /\ image.state = "pending"
    /\ image' = [image EXCEPT !.state = "broken"]
    /\ UNCHANGED <<envVars, cls, options, src, top, start, beta, gamma,
                   latestKnownScroll, isImageLoaded, isPainting, canvas, stale,
                   obsVars, regVars, pollVars>>

\* Parallax.prototype.onDeviceOrientationChange: the tilt, then render();
\* an exception of render() ends this handler only
PollDeviceOrientationChange(eb, eg) ==
    /\ beta' = Round(eb, TiltDivisor)
    /\ gamma' = Round(eg, TiltDivisor)
    /\ UNCHANGED <<envVars, cls, options, src, top, start, latestKnownScroll,
                   isImageLoaded, isPainting, image, canvas, stale,
                   obsVars, regVars, pollVars>>

NextPoll ==
    \/ \E s \in 0..MaxScroll : UserScroll(s)
    \/ PollFrame
    \/ PollImageLoad
    \/ PollImageError
    \/ \E e \in TiltEvents : PollDeviceOrientationChange(e[1], e[2])

SpecPoll == InitPoll /\ [][NextPoll]_vars

\* a poll compares and records the scroll: onScroll is called exactly when
\* the scroll differs from latestKnownScroll, which then holds that scroll,
\* and a poll that reads the scroll of the poll before it does not call
\* onScroll
PollCompares ==
    frame.kind = "frame" =>
        /\ frame.called <=> frame.scroll # frame.known
        /\ latestKnownScroll = frame.scroll
        /\ frame.repeat => ~frame.called

\* C18: every poll calls onScroll exactly when the scroll differs from
\* latestKnownScroll, sets latestKnownScroll to it, and reschedules itself
\* for the next frame; frames with an unchanged scroll call onScroll at most
\* once.
C18_PollComparesAndReschedules == PollCompares /\ rafPending

====
